---- MODULE Spec2Model ----
(***************************************************************************)
(* A model of src/demo_app.py: the SQLite store that init_db creates and   *)
(* seeds, and the read endpoints of the Flask application.                 *)
(*                                                                         *)
(* Each SQL statement is one atomic step.  Both scripts of init_db run     *)
(* through cursor.executescript, which runs in autocommit mode: every      *)
(* statement commits on its own.  get_stats issues six SELECTs on one      *)
(* connection without a transaction, so each SELECT reads the store as it  *)
(* is at that moment.  The other endpoints issue a single SELECT.          *)
(*                                                                         *)
(* Dates are <<year, month, day>> triples; the lexicographic order on      *)
(* them is the order SQLite's text comparison gives ISO-8601 dates.        *)
(* A nullable column holds {} for NULL and {v} for the value v.            *)
(* ORDER BY is not modelled: a view is the set of its rows.                *)
(***************************************************************************)
EXTENDS Integers, Sequences, FiniteSets, TLC

VARIABLES
    now,            \* the current date (datetime.now())
    schema,         \* the tables that exist in library_demo.db
    seqs,           \* sqlite_sequence: table name -> last AUTOINCREMENT rowid
    categories,     \* rows of table categories
    authors,        \* rows of table authors
    books,          \* rows of table books
    book_authors,   \* rows of table book_authors
    members,        \* rows of table members
    borrowings,     \* rows of table borrowings
    init_pc,        \* position of the running init_db (0: not running)
    runs,           \* init_db runs started so far
    stats_pc,       \* position of the running get_stats (0: not running)
    stats,          \* the stats dict of the running get_stats
    seen,           \* history: the store states the running get_stats overlapped
    resp            \* the last response sent to the client

tables == <<categories, authors, books, book_authors, members, borrowings>>
db     == <<schema, seqs, categories, authors, books, book_authors, members, borrowings>>
vars   == <<now, schema, seqs, categories, authors, books, book_authors, members,
            borrowings, init_pc, runs, stats_pc, stats, seen, resp>>

----------------------------------------------------------------------------
(* Bounds *)

\* init_db runs (process starts against the same database file)
MaxRuns == 2
\* days the clock advances
MaxDays == 2

----------------------------------------------------------------------------
(* Values *)

NULL == {}
Some(v) == {v}

StartDate == <<2025, 6, 30>>

DateLess(a, b) ==
    \/ a[1] < b[1]
    \/ a[1] = b[1] /\ a[2] < b[2]
    \/ a[1] = b[1] /\ a[2] = b[2] /\ a[3] < b[3]

IsLeap(y) == (y % 4 = 0 /\ y % 100 # 0) \/ y % 400 = 0

DaysIn(y, m) ==
    IF m = 2 THEN (IF IsLeap(y) THEN 29 ELSE 28)
    ELSE IF m \in {4, 6, 9, 11} THEN 30 ELSE 31

NextDay(d) ==
    IF d[3] < DaysIn(d[1], d[2]) THEN <<d[1], d[2], d[3] + 1>>
    ELSE IF d[2] < 12 THEN <<d[1], d[2] + 1, 1>>
    ELSE <<d[1] + 1, 1, 1>>

RECURSIVE AddDays(_, _)
AddDays(d, n) == IF n = 0 THEN d ELSE AddDays(NextDay(d), n - 1)

AllTables == {"authors", "categories", "books", "book_authors", "members", "borrowings"}

\* the AUTOINCREMENT tables (book_authors has a composite primary key)
SeqTables == {"authors", "categories", "books", "members", "borrowings"}

----------------------------------------------------------------------------
(* INSERT OR IGNORE *)

Max(a, b) == IF a >= b THEN a ELSE b

RECURSIVE MaxOf(_)
MaxOf(S) == IF S = {} THEN 0
            ELSE LET x == CHOOSE y \in S : TRUE IN Max(x, MaxOf(S \ {x}))

\* a row v violates a uniqueness constraint of the table: uniq is the set of
\* the table's unique keys, each a set of columns
Conflicts(rows, v, uniq) ==
    \E k \in uniq : \E r \in rows : \A c \in k : r[c] = v[c]

\* INSERT OR IGNORE INTO t (...) VALUES values[1], values[2], ...
\* idcol is the INTEGER PRIMARY KEY AUTOINCREMENT column ("" when the table has
\* none).  A rowid is drawn for every row of VALUES, before its constraints are
\* checked, so an ignored row uses one up.
RECURSIVE InsertOrIgnore(_, _, _, _, _)
InsertOrIgnore(rows, seq, values, idcol, uniq) ==
    IF values = << >> THEN [rows |-> rows, seq |-> seq]
    ELSE LET v    == Head(values)
             id   == Max(seq, MaxOf({r[idcol] : r \in rows})) + 1
             row  == IF idcol = "" THEN v ELSE (idcol :> id) @@ v
             seq2 == IF idcol = "" THEN seq ELSE id
         IN  IF Conflicts(rows, row, uniq)
             THEN InsertOrIgnore(rows, seq2, Tail(values), idcol, uniq)
             ELSE InsertOrIgnore(rows \cup {row}, seq2, Tail(values), idcol, uniq)

----------------------------------------------------------------------------
(* The seed data of init_db.  The columns carried are those a constraint, a  *)
(* join, a filter or an aggregate of the program reads, and the names.       *)

SeedCategories == <<
    [category_name |-> "Technology"],
    [category_name |-> "Science"],
    [category_name |-> "Fiction"],
    [category_name |-> "Business"] >>

SeedAuthors == <<
    [first_name |-> "Robert",       last_name |-> "Martin"],
    [first_name |-> "Eric",         last_name |-> "Evans"],
    [first_name |-> "Martin",       last_name |-> "Fowler"],
    [first_name |-> "Gang of Four", last_name |-> "Authors"] >>

SeedBooks == <<
    [isbn |-> "9780132350884", title |-> "Clean Code",
     total_copies |-> 5, available_copies |-> 3, category_id |-> 1],
    [isbn |-> "9780321125217", title |-> "Domain-Driven Design",
     total_copies |-> 3, available_copies |-> 2, category_id |-> 1],
    [isbn |-> "9780201633610", title |-> "Design Patterns",
     total_copies |-> 4, available_copies |-> 4, category_id |-> 1],
    [isbn |-> "9780134685991", title |-> "Effective Java",
     total_copies |-> 6, available_copies |-> 5, category_id |-> 1] >>

SeedBookAuthors == <<
    [book_id |-> 1, author_id |-> 1],
    [book_id |-> 2, author_id |-> 2],
    [book_id |-> 3, author_id |-> 4],
    [book_id |-> 4, author_id |-> 3] >>

\* members.status is not given by the INSERT: the column default fills it in
DefaultMemberStatus == "active"

SeedMembers == <<
    [first_name |-> "John", last_name |-> "Doe",     email |-> "john.doe@email.com",
     status |-> DefaultMemberStatus],
    [first_name |-> "Jane", last_name |-> "Smith",   email |-> "jane.smith@email.com",
     status |-> DefaultMemberStatus],
    [first_name |-> "Mike", last_name |-> "Johnson", email |-> "mike.j@email.com",
     status |-> DefaultMemberStatus] >>

\* a slip in the seed: a loan marked returned that carries no return date
SeedBorrowings_mut == <<
    [member_id |-> 1, book_id |-> 1, borrow_date |-> <<2025, 6, 1>>,
     due_date |-> <<2025, 7, 1>>, return_date |-> NULL, status |-> "returned"],
    [member_id |-> 2, book_id |-> 2, borrow_date |-> <<2025, 6, 15>>,
     due_date |-> <<2025, 7, 15>>, return_date |-> NULL, status |-> "borrowed"] >>

\* borrowings.return_date is not given by the INSERT: it is NULL
SeedBorrowings == <<
    [member_id |-> 1, book_id |-> 1, borrow_date |-> <<2025, 6, 1>>,
     due_date |-> <<2025, 7, 1>>, return_date |-> NULL, status |-> "borrowed"],
    [member_id |-> 2, book_id |-> 2, borrow_date |-> <<2025, 6, 15>>,
     due_date |-> <<2025, 7, 15>>, return_date |-> NULL, status |-> "borrowed"] >>

\* the uniqueness constraints of each table besides its AUTOINCREMENT key
CategoriesUnique  == {{"category_name"}}
AuthorsUnique     == {}
BooksUnique       == {{"isbn"}}
BookAuthorsUnique == {{"book_id", "author_id"}}
MembersUnique     == {{"email"}}
BorrowingsUnique  == {}

----------------------------------------------------------------------------
(* What a single store state holds, as the statistics name it *)

RECURSIVE SumOf(_, _)
SumOf(rows, col) ==
    IF rows = {} THEN 0
    ELSE LET r == CHOOSE x \in rows : TRUE IN r[col] + SumOf(rows \ {r}, col)

StatsTables == {"books", "authors", "members", "borrowings"}

Snapshot ==
    [ok                |-> StatsTables \subseteq schema,
     total_books       |-> Cardinality(books),
     total_authors     |-> Cardinality(authors),
     total_members     |-> Cardinality({m \in members : m.status = "active"}),
     active_borrowings |-> Cardinality({b \in borrowings : b.status = "borrowed"}),
     total_copies      |-> SumOf(books, "total_copies"),
     available_copies  |-> SumOf(books, "available_copies")]

\* a get_stats call is between its first query and its response
StatsRunning == stats_pc # 0

\* history: a write that commits while get_stats runs adds the new store state
Observe == seen' = IF StatsRunning THEN seen \cup {Snapshot'} ELSE seen

----------------------------------------------------------------------------
(* init_db: six CREATE TABLE IF NOT EXISTS, six INSERT OR IGNORE, commit *)

CreateOrder == <<"authors", "categories", "books", "book_authors", "members", "borrowings">>

FirstInsert == Len(CreateOrder) + 1
LastStep    == FirstInsert + 6

init_db_start ==
    /\ init_pc = 0
    /\ runs < MaxRuns
    /\ init_pc' = 1
    /\ runs' = runs + 1
    /\ UNCHANGED <<now, db, stats_pc, stats, seen, resp>>

CreateTable ==
    /\ init_pc \in 1..Len(CreateOrder)
    /\ schema' = schema \cup {CreateOrder[init_pc]}
    /\ init_pc' = init_pc + 1
    /\ UNCHANGED <<now, seqs, tables, runs, stats_pc, stats, resp>>
    /\ Observe

InsertCategories ==
    /\ init_pc = FirstInsert
    /\ LET r == InsertOrIgnore(categories, seqs["categories"], SeedCategories,
                               "category_id", CategoriesUnique)
       IN  /\ categories' = r.rows
           /\ seqs' = [seqs EXCEPT !["categories"] = r.seq]
    /\ init_pc' = init_pc + 1
    /\ UNCHANGED <<now, schema, authors, books, book_authors, members, borrowings,
                   runs, stats_pc, stats, resp>>
    /\ Observe

InsertAuthors ==
    /\ init_pc = FirstInsert + 1
    /\ LET r == InsertOrIgnore(authors, seqs["authors"], SeedAuthors,
                               "author_id", AuthorsUnique)
       IN  /\ authors' = r.rows
           /\ seqs' = [seqs EXCEPT !["authors"] = r.seq]
    /\ init_pc' = init_pc + 1
    /\ UNCHANGED <<now, schema, categories, books, book_authors, members, borrowings,
                   runs, stats_pc, stats, resp>>
    /\ Observe

InsertBooks ==
    /\ init_pc = FirstInsert + 2
    /\ LET r == InsertOrIgnore(books, seqs["books"], SeedBooks,
                               "book_id", BooksUnique)
       IN  /\ books' = r.rows
           /\ seqs' = [seqs EXCEPT !["books"] = r.seq]
    /\ init_pc' = init_pc + 1
    /\ UNCHANGED <<now, schema, categories, authors, book_authors, members, borrowings,
                   runs, stats_pc, stats, resp>>
    /\ Observe

InsertBookAuthors ==
    /\ init_pc = FirstInsert + 3
    /\ LET r == InsertOrIgnore(book_authors, 0, SeedBookAuthors,
                               "", BookAuthorsUnique)
       IN  book_authors' = r.rows
    /\ init_pc' = init_pc + 1
    /\ UNCHANGED <<now, schema, seqs, categories, authors, books, members, borrowings,
                   runs, stats_pc, stats, resp>>
    /\ Observe

InsertMembers ==
    /\ init_pc = FirstInsert + 4
    /\ LET r == InsertOrIgnore(members, seqs["members"], SeedMembers,
                               "member_id", MembersUnique)
       IN  /\ members' = r.rows
           /\ seqs' = [seqs EXCEPT !["members"] = r.seq]
    /\ init_pc' = init_pc + 1
    /\ UNCHANGED <<now, schema, categories, authors, books, book_authors, borrowings,
                   runs, stats_pc, stats, resp>>
    /\ Observe

InsertBorrowings ==
    /\ init_pc = FirstInsert + 5
    /\ LET r == InsertOrIgnore(borrowings, seqs["borrowings"], SeedBorrowings,
                               "borrowing_id", BorrowingsUnique)
       IN  /\ borrowings' = r.rows
           /\ seqs' = [seqs EXCEPT !["borrowings"] = r.seq]
    /\ init_pc' = init_pc + 1
    /\ UNCHANGED <<now, schema, categories, authors, books, book_authors, members,
                   runs, stats_pc, stats, resp>>
    /\ Observe

\* conn.commit(); conn.close(): nothing is pending, every statement has committed
init_db_close ==
    /\ init_pc = LastStep
    /\ init_pc' = 0
    /\ UNCHANGED <<now, db, runs, stats_pc, stats, seen, resp>>

init_db ==
    \/ init_db_start
    \/ CreateTable
    \/ InsertCategories
    \/ InsertAuthors
    \/ InsertBooks
    \/ InsertBookAuthors
    \/ InsertMembers
    \/ InsertBorrowings
    \/ init_db_close

----------------------------------------------------------------------------
(* SQL aggregates *)

COUNT(rows) == Cardinality(rows)

\* SUM(col): NULL over no rows
SUM(rows, col) == IF rows = {} THEN NULL ELSE Some(SumOf(rows, col))

\* Python's `x or 0` on a fetched SUM
OrZero(x) == IF x = NULL \/ x = Some(0) THEN 0 ELSE CHOOSE v \in x : TRUE

\* first_name || ' ' || last_name
DisplayName(r) == r.first_name \o " " \o r.last_name

\* GROUP_CONCAT(name): the names joined by ',', NULL over no rows
RECURSIVE JoinNames(_)
JoinNames(rows) ==
    LET r == CHOOSE x \in rows : TRUE
    IN  IF rows = {r} THEN DisplayName(r)
        ELSE DisplayName(r) \o "," \o JoinNames(rows \ {r})

GROUP_CONCAT(rows) == IF rows = {} THEN NULL ELSE Some(JoinNames(rows))

----------------------------------------------------------------------------
(* The responses.  A query on a table that does not exist raises             *)
(* sqlite3.OperationalError, which Flask turns into a 500 response.          *)

NoResponse == [endpoint |-> "none"]
Failure(e) == [endpoint |-> e, status |-> 500]
Rows(e, rows) ==
    [endpoint |-> e, status |-> 200, success |-> TRUE, count |-> COUNT(rows), rows |-> rows]

\* a completed call leaves no running get_stats behind
Answer(r) ==
    /\ stats_pc = 0
    /\ resp' = r
    /\ seen' = {}
    /\ UNCHANGED <<now, db, init_pc, runs, stats_pc, stats>>

health_check == Answer([endpoint |-> "health", status |-> 200, timestamp |-> now])

BooksView ==
    { b @@ [category_name |-> {c.category_name : c \in
                                 {x \in categories : x.category_id = b.category_id}},
            authors |-> GROUP_CONCAT({a \in authors :
                            \E ba \in book_authors : /\ ba.book_id = b.book_id
                                                     /\ ba.author_id = a.author_id})]
      : b \in books }

get_books ==
    Answer(IF {"books", "categories", "book_authors", "authors"} \subseteq schema
           THEN Rows("books", BooksView) ELSE Failure("books"))

AuthorsView ==
    { a @@ [book_count |-> COUNT({ba \in book_authors : ba.author_id = a.author_id})]
      : a \in authors }

get_authors ==
    Answer(IF {"authors", "book_authors"} \subseteq schema
           THEN Rows("authors", AuthorsView) ELSE Failure("authors"))

MembersView ==
    { m @@ [total_borrowings |-> COUNT({br \in borrowings : br.member_id = m.member_id})]
      : m \in members }

get_members ==
    Answer(IF {"members", "borrowings"} \subseteq schema
           THEN Rows("members", MembersView) ELSE Failure("members"))

BorrowingsView ==
    { x[1] @@ [member_name |-> DisplayName(x[2]),
               book_title  |-> x[3].title,
               isbn        |-> x[3].isbn]
      : x \in {y \in borrowings \X members \X books :
                  /\ y[1].member_id = y[2].member_id
                  /\ y[1].book_id = y[3].book_id} }

\* a read that sweeps: it stores 'overdue' on the loans past their due date
get_borrowings_mut ==
    /\ stats_pc = 0
    /\ {"borrowings", "members", "books"} \subseteq schema
    /\ borrowings' = { IF br.status = "borrowed" /\ DateLess(br.due_date, now)
                       THEN [br EXCEPT !.status = "overdue"] ELSE br
                       : br \in borrowings }
    /\ resp' = Rows("borrowings", BorrowingsView)
    /\ seen' = {}
    /\ UNCHANGED <<now, schema, seqs, categories, authors, books, book_authors, members,
                   init_pc, runs, stats_pc, stats>>

get_borrowings ==
    Answer(IF {"borrowings", "members", "books"} \subseteq schema
           THEN Rows("borrowings", BorrowingsView) ELSE Failure("borrowings"))

----------------------------------------------------------------------------
(* get_stats: six queries, one step each *)

TotalBooks       == COUNT(books)
TotalAuthors     == COUNT(authors)
\* the WHERE status = 'active' forgotten
TotalMembers_mut == COUNT(members)

TotalMembers     == COUNT({m \in members : m.status = "active"})
ActiveBorrowings == COUNT({b \in borrowings : b.status = "borrowed"})
TotalCopies      == OrZero(SUM(books, "total_copies"))
AvailableCopies  == OrZero(SUM(books, "available_copies"))

get_stats_start ==
    /\ stats_pc = 0
    /\ stats_pc' = 1
    /\ stats' = << >>
    /\ seen' = {Snapshot}
    /\ resp' = NoResponse
    /\ UNCHANGED <<now, db, init_pc, runs>>

\* cursor.execute(...); stats[key] = cursor.fetchone()[0]
StatsQuery(pc, table, key, value) ==
    /\ stats_pc = pc
    /\ IF table \in schema
       THEN /\ stats' = (key :> value) @@ stats
            /\ stats_pc' = pc + 1
            /\ UNCHANGED resp
       ELSE /\ stats' = << >>
            /\ stats_pc' = 0
            /\ resp' = Failure("stats")
    /\ UNCHANGED <<now, db, init_pc, runs, seen>>

QueryTotalBooks       == StatsQuery(1, "books", "total_books", TotalBooks)
QueryTotalAuthors     == StatsQuery(2, "authors", "total_authors", TotalAuthors)
QueryTotalMembers     == StatsQuery(3, "members", "total_members", TotalMembers)
QueryActiveBorrowings == StatsQuery(4, "borrowings", "active_borrowings", ActiveBorrowings)
QueryTotalCopies      == StatsQuery(5, "books", "total_copies", TotalCopies)
QueryAvailableCopies  == StatsQuery(6, "books", "available_copies", AvailableCopies)

get_stats_respond ==
    /\ stats_pc = 7
    /\ resp' = [endpoint |-> "stats", status |-> 200, success |-> TRUE,
                stats |-> stats, generated_at |-> now]
    /\ stats_pc' = 0
    /\ stats' = << >>
    /\ UNCHANGED <<now, db, init_pc, runs, seen>>

get_stats ==
    \/ get_stats_start
    \/ QueryTotalBooks
    \/ QueryTotalAuthors
    \/ QueryTotalMembers
    \/ QueryActiveBorrowings
    \/ QueryTotalCopies
    \/ QueryAvailableCopies
    \/ get_stats_respond

----------------------------------------------------------------------------
(* The clock *)

Tick ==
    /\ DateLess(now, AddDays(StartDate, MaxDays))
    /\ now' = NextDay(now)
    /\ UNCHANGED <<db, init_pc, runs, stats_pc, stats, seen, resp>>

----------------------------------------------------------------------------
(* The program: a database file that does not exist yet, init_db run at     *)
(* every process start, one client calling the endpoints.                   *)

Init ==
    /\ now = StartDate
    /\ schema = {}
    /\ seqs = [t \in SeqTables |-> 0]
    /\ categories = {}
    /\ authors = {}
    /\ books = {}
    /\ book_authors = {}
    /\ members = {}
    /\ borrowings = {}
    /\ init_pc = 0
    /\ runs = 0
    /\ stats_pc = 0
    /\ stats = << >>
    /\ seen = {}
    /\ resp = NoResponse

Next ==
    \/ init_db
    \/ health_check
    \/ get_books
    \/ get_authors
    \/ get_members
    \/ get_borrowings
    \/ get_stats
    \/ Tick

Spec == Init /\ [][Next]_vars

----------------------------------------------------------------------------
(* get_stats as a function of the store: any store of the schema, no writer *)

CategoriesOnce  == InsertOrIgnore({}, 0, SeedCategories, "category_id", CategoriesUnique).rows
AuthorsOnce     == InsertOrIgnore({}, 0, SeedAuthors, "author_id", AuthorsUnique).rows
BooksOnce       == InsertOrIgnore({}, 0, SeedBooks, "book_id", BooksUnique).rows
BookAuthorsOnce == InsertOrIgnore({}, 0, SeedBookAuthors, "", BookAuthorsUnique).rows
MembersOnce     == InsertOrIgnore({}, 0, SeedMembers, "member_id", MembersUnique).rows
BorrowingsOnce  == InsertOrIgnore({}, 0, SeedBorrowings, "borrowing_id", BorrowingsUnique).rows

ReturnedLoan ==
    [borrowing_id |-> 3, member_id |-> 3, book_id |-> 4, borrow_date |-> <<2025, 5, 2>>,
     due_date |-> <<2025, 6, 2>>, return_date |-> Some(<<2025, 5, 20>>), status |-> "returned"]

MemberStatuses == {"active", "inactive"}

InitStats ==
    /\ now = StartDate
    /\ schema = AllTables
    /\ categories = CategoriesOnce
    /\ \E k \in 0..Cardinality(AuthorsOnce) : authors = {a \in AuthorsOnce : a.author_id <= k}
    /\ books \in SUBSET BooksOnce
    /\ book_authors = BookAuthorsOnce
    /\ \E f \in [1..Cardinality(MembersOnce) -> MemberStatuses] :
           members = {[m EXCEPT !.status = f[m.member_id]] : m \in MembersOnce}
    /\ borrowings \in SUBSET (BorrowingsOnce \cup {ReturnedLoan})
    /\ seqs = [categories |-> MaxOf({r.category_id : r \in categories}),
               authors    |-> MaxOf({r.author_id : r \in authors}),
               books      |-> MaxOf({r.book_id : r \in books}),
               members    |-> MaxOf({r.member_id : r \in members}),
               borrowings |-> MaxOf({r.borrowing_id : r \in borrowings})]
    /\ init_pc = 0
    /\ runs = 1
    /\ stats_pc = 0
    /\ stats = << >>
    /\ seen = {}
    /\ resp = NoResponse

SpecStats == InitStats /\ [][get_stats]_vars

----------------------------------------------------------------------------
(* Properties *)

Seeded == runs >= 1 /\ init_pc = 0

OnLoan(b) ==
    Cardinality({br \in borrowings : br.book_id = b.book_id /\ br.status = "borrowed"})

StatsAnswered == resp.endpoint = "stats" /\ resp.status = 200

\* C1: once init_db has run, every book has 0 <= available_copies <= total_copies
\* and total_copies - available_copies loans with status 'borrowed'.
C1_CopyCountInvariant ==
    Seeded => \A b \in books :
                 /\ 0 <= b.available_copies
                 /\ b.available_copies <= b.total_copies
                 /\ b.total_copies - b.available_copies = OnLoan(b)

\* C5: the statistics get_stats returns are the counts and sums of the store:
\* books, authors, active members, borrowed loans, total and available copies.
C5_StatsMatchStore ==
    StatsAnswered =>
        /\ resp.stats.total_books = Cardinality(books)
        /\ resp.stats.total_authors = Cardinality(authors)
        /\ resp.stats.total_members = Cardinality(members)
              - Cardinality({m \in members : m.status # "active"})
        /\ resp.stats.active_borrowings = Cardinality(borrowings)
              - Cardinality({b \in borrowings : b.status # "borrowed"})
        /\ resp.stats.total_copies = SumOf(books, "total_copies")
        /\ resp.stats.available_copies = SumOf(books, "available_copies")

\* the scenario of the claim, on a store that also holds an inactive member and
\* a returned loan
C5_Scenario ==
    /\ StatsAnswered
    /\ Cardinality(books) = 4
    /\ \E m \in members : m.status = "inactive"
    /\ ReturnedLoan \in borrowings
    /\ resp.stats.total_copies = 18
    /\ resp.stats.available_copies = 14
    /\ resp.stats.active_borrowings = 2
    /\ resp.stats.total_members = 2

\* C6: a step of get_stats, get_books, get_members or get_borrowings leaves
\* every table with the rows it had.
C6_ReadsArePure ==
    [][(get_stats \/ get_books \/ get_members \/ get_borrowings)
          => UNCHANGED <<schema, tables>>]_vars

C6_ReadAnswered ==
    /\ resp.endpoint = "borrowings"
    /\ resp.status = 200
    /\ resp.count = 2
    /\ DateLess(<<2025, 7, 1>>, now)

\* C7: the borrowings view reports status 'overdue' for every loan stored as
\* 'borrowed' whose due date is before the current date.
C7_OverdueReported ==
    [][get_borrowings =>
          \A br \in borrowings :
              (br.status = "borrowed" /\ DateLess(br.due_date, now)
                 /\ resp'.status = 200)
              => \E row \in resp'.rows : /\ row.borrowing_id = br.borrowing_id
                                         /\ row.status = "overdue"]_vars

\* C8: every loan has a status among borrowed, returned and overdue, has a
\* return date exactly when it is returned, and is never stored as overdue.
C8_BorrowingLifecycle ==
    \A br \in borrowings :
        /\ br.status \in {"borrowed", "returned", "overdue"}
        /\ (br.return_date # NULL) <=> (br.status = "returned")
        /\ br.status # "overdue"

C8_LoansStored == Seeded /\ runs = 2 /\ Cardinality(borrowings) = 4

\* C9: the statistics of one get_stats call are those of one store state
\* among the states the store went through during the call.
C9_StatsFromOneState ==
    StatsAnswered =>
        \E s \in seen :
            /\ s.ok
            /\ resp.stats.total_books = s.total_books
            /\ resp.stats.total_authors = s.total_authors
            /\ resp.stats.total_members = s.total_members
            /\ resp.stats.active_borrowings = s.active_borrowings
            /\ resp.stats.total_copies = s.total_copies
            /\ resp.stats.available_copies = s.available_copies

\* C10: after any number of init_db runs every table holds the rows one run
\* on an empty database produces.
C10_InitDbIdempotent ==
    Seeded => /\ categories = CategoriesOnce
              /\ authors = AuthorsOnce
              /\ books = BooksOnce
              /\ book_authors = BookAuthorsOnce
              /\ members = MembersOnce
              /\ borrowings = BorrowingsOnce

====
